---- MODULE Spec2Model ----
(***************************************************************************)
(* A model of minidhcp.py (version 012): a mini DHCP server that serves    *)
(* exactly one host.  Byte strings are sequences of integers 0..255, text  *)
(* strings are sequences of one-character strings.  Python indexes from 0, *)
(* TLA+ sequences from 1: At and Slice do the translation.                 *)
(***************************************************************************)
EXTENDS Integers, Sequences, FiniteSets, TLC

VARIABLES
    pc,           \* position of the program: start, waiting, built, sockopen, sent, exited
    argv,         \* sys.argv[1:], a sequence of text strings
    macaddr,      \* global macaddr (upper-cased -m value)
    baipbind,     \* global baipbind
    baipaddr,     \* global baipaddr
    basubnet,     \* global basubnet
    bagateway,    \* global bagateway
    packet,       \* the datagram returned by the last recvfrom
    opts,         \* the dict opts of the main loop
    offer,        \* the bytearray offer of the main loop
    responsename, \* the name printed when the reply is sent
    reason,       \* the diagnostic printed for the last datagram
    sendsock,     \* the transmitting socket: none, open, closed
    wire,         \* the datagrams broadcast since the last recvfrom
    received,     \* the number of datagrams received so far
    cpc,          \* position of the option codec exercise
    optnum,       \* argument optnum of buildbyteoption
    ba,           \* argument ba of buildbyteoption
    opt,          \* the bytearray returned by buildbyteoption
    optiondata,   \* the option area being scanned
    i             \* the scan index

vars == <<pc, argv, macaddr, baipbind, baipaddr, basubnet, bagateway, packet,
          opts, offer, responsename, reason, sendsock, wire, received,
          cpc, optnum, ba, opt, optiondata, i>>

confvars == <<macaddr, baipbind, baipaddr, basubnet, bagateway>>
loopvars == <<packet, opts, offer, responsename, reason, sendsock, wire, received>>
codecvars == <<cpc, optnum, ba, opt, optiondata, i>>

-----------------------------------------------------------------------------
(* Python primitives *)

Min(a, b) == IF a < b THEN a ELSE b

\* bytes[k]
At(s, k) == s[k + 1]

\* bytes[a:b], clamped to the sequence as Python clamps a slice
Slice(s, a, b) ==
    IF a + 1 > Min(b, Len(s)) THEN << >> ELSE SubSeq(s, a + 1, Min(b, Len(s)))

\* bytearray(n)
Zeros(n) == [k \in 1..n |-> 0]

\* s[a:b] = v for a slice and a value of the same length
SetSlice(s, a, b, v) ==
    [k \in 1..Len(s) |-> IF k > a /\ k <= b THEN v[k - a] ELSE s[k]]

RECURSIVE Concat(_)
Concat(ss) == IF ss = << >> THEN << >> ELSE Head(ss) \o Concat(Tail(ss))

HexChars ==
    <<"0", "1", "2", "3", "4", "5", "6", "7", "8", "9", "A", "B", "C", "D", "E", "F">>

\* "{:02X}".format(b)
Hex2(b) == <<HexChars[(b \div 16) + 1], HexChars[(b % 16) + 1]>>

Lowers == <<"a", "b", "c", "d", "e", "f", "x">>
Uppers == <<"A", "B", "C", "D", "E", "F", "X">>

UpperChar(c) ==
    IF \E k \in 1..Len(Lowers) : Lowers[k] = c
    THEN Uppers[CHOOSE k \in 1..Len(Lowers) : Lowers[k] = c]
    ELSE c

\* the -m value kept as typed
Upper_identity(s) == s

\* str.upper()
Upper(s) == [k \in 1..Len(s) |-> UpperChar(s[k])]

Digits == <<"0", "1", "2", "3", "4", "5", "6", "7", "8", "9">>

IsDigitChar(c) == \E k \in 1..10 : Digits[k] = c

DigitVal(c) == (CHOOSE k \in 1..10 : Digits[k] = c) - 1

\* str.isdigit() of a non-empty string
IsDigit(s) == Len(s) > 0 /\ \A k \in 1..Len(s) : IsDigitChar(s[k])

\* int(s) of an all-digit string
RECURSIVE IntOf(_)
IntOf(s) ==
    IF s = << >> THEN 0
    ELSE 10 * IntOf(SubSeq(s, 1, Len(s) - 1)) + DigitVal(s[Len(s)])

\* str.split('.')
RECURSIVE SplitDot(_, _, _)
SplitDot(s, cur, acc) ==
    IF s = << >> THEN Append(acc, cur)
    ELSE IF Head(s) = "." THEN SplitDot(Tail(s), << >>, Append(acc, cur))
    ELSE SplitDot(Tail(s), Append(cur, Head(s)), acc)

-----------------------------------------------------------------------------
(* The functions of minidhcp.py *)

OPT_DHCP_MESSAGE_TYPE == 53

readablebytes(bytes) ==
    IF Len(bytes) = 0 THEN <<"0", "x", "N", "u", "l", "l">>
    ELSE <<"0", "x">> \o Concat([k \in 1..Len(bytes) |-> Hex2(bytes[k])])

readablemacaddress(bytes) ==
    IF Len(bytes) # 6
    THEN <<"<", "i", "n", "v", "a", "l", "i", "d", " ", "M", "A", "C", ">">>
    ELSE Concat([k \in 1..6 |->
                   IF k > 1 THEN <<":">> \o Hex2(bytes[k]) ELSE Hex2(bytes[k])])

\* the loop of ip2bytearray over the four octets, from octet k on
RECURSIVE ip2bytearrayFrom(_, _, _)
ip2bytearrayFrom(octets, k, bytes) ==
    IF k > 4 THEN [errmsg |-> "OK", ba |-> bytes]
    ELSE LET o == octets[k] IN
         IF Len(o) = 0 THEN [errmsg |-> "Badly formed IP address", ba |-> bytes]
         ELSE IF ~IsDigit(o)
         THEN [errmsg |-> "Octet in IP address is not all numbers", ba |-> bytes]
         ELSE IF IntOf(o) < 0
         THEN [errmsg |-> "Octet out of range (possibly negeative)", ba |-> bytes]
         ELSE IF IntOf(o) > 255
         THEN [errmsg |-> "Octet out of range (more than 255)", ba |-> bytes]
         ELSE ip2bytearrayFrom(octets, k + 1, [bytes EXCEPT ![k] = IntOf(o)])

ip2bytearray(ipaddress) ==
    LET octets == SplitDot(ipaddress, << >>, << >>) IN
    IF Len(octets) < 4
    THEN [errmsg |-> "Not enough octets in IP address", ba |-> Zeros(4)]
    ELSE IF Len(octets) > 4
    THEN [errmsg |-> "Too many octets in IP address", ba |-> Zeros(4)]
    ELSE ip2bytearrayFrom(octets, 1, Zeros(4))

buildipaddr(ip1, ip2, ip3, ip4) == <<ip1, ip2, ip3, ip4>>

cookieconstant == buildipaddr(99, 130, 83, 99)

\* (ba) == 0 compares a bytearray with an int: never equal in Python
BytearrayEqualsInt(bytes, n) == FALSE

buildbyteoption(optnumber, bytes) ==
    LET lenba == Len(bytes) IN
    IF BytearrayEqualsInt(bytes, 0)
    THEN <<optnumber>>
    ELSE SetSlice([Zeros(2 + lenba) EXCEPT ![1] = optnumber, ![2] = lenba],
                  2, 2 + lenba, bytes)

build1byteoption(optnumber, databyte) == <<optnumber, 1, databyte>>

build4byteoption(optnumber, d1, d2, d3, d4) == <<optnumber, 4, d1, d2, d3, d4>>

buildendoption == <<255>>

-----------------------------------------------------------------------------
(* The main loop, one datagram: lines 410-579 *)

EmptyDict == [c \in {} |-> << >>]

\* the length test one byte too lax
TooShort_240(p) == Len(p) < 240

\* lenpacket < 241
TooShort(p) == Len(p) < 241

\* only op 1 (request) accepted
OpOk_requestonly(p) == At(p, 0) = 1

\* (op != 1) and (op != 2) is false
OpOk(p) == ~(At(p, 0) # 1 /\ At(p, 0) # 2)

\* hardwaretype != 1 is false
HardwareTypeOk(p) == ~(At(p, 1) # 1)

\* lenhardwareaddress != 6 is false
HardwareLenOk(p) == ~(At(p, 2) # 6)

\* readablemacaddress(thismacaddr) != macaddr is false
MacOk(p, mac) == ~(readablemacaddress(Slice(p, 28, 34)) # mac)

\* the cookie compared on its first three bytes only
CookieOk_3bytes(p) ==
    ~(readablebytes(Slice(p, 236, 239)) # <<"0", "x", "6", "3", "8", "2", "5", "3">>)

\* readablebytes(cookie) != "0x63825363" is false
CookieOk(p) ==
    ~(readablebytes(Slice(p, 236, 240))
        # <<"0", "x", "6", "3", "8", "2", "5", "3", "6", "3">>)

\* the bounds test one byte too strict
PrematureEOF_early(idx, optlen, numoptbytes) == (idx + optlen + 1) >= numoptbytes

\* the test that the option data lies in the buffer: (i + optlen) >= numoptbytes
PrematureEOF(idx, optlen, numoptbytes) == (idx + optlen) >= numoptbytes

\* an option code already in opts keeps its first payload
ScanStep_firstwins(data, idx, o) ==
    LET numoptbytes == Len(data)
        option == At(data, idx)
    IN  IF option = 0 THEN [i |-> idx + 1, opts |-> o, brk |-> FALSE]
        ELSE IF option = 255 THEN [i |-> idx, opts |-> o, brk |-> TRUE]
        ELSE IF idx + 1 >= numoptbytes THEN [i |-> idx + 1, opts |-> o, brk |-> TRUE]
        ELSE LET optlen == At(data, idx + 1) IN
             IF PrematureEOF(idx + 2, optlen, numoptbytes)
             THEN [i |-> idx + 2, opts |-> o, brk |-> TRUE]
             ELSE [i |-> idx + 2 + optlen,
                   opts |-> o @@ (option :> Slice(data, idx + 2, idx + 2 + optlen)),
                   brk |-> FALSE]

\* the PAD branch without its i += 1
ScanStep_padstuck(data, idx, o) ==
    LET numoptbytes == Len(data)
        option == At(data, idx)
    IN  IF option = 0 THEN [i |-> idx, opts |-> o, brk |-> FALSE]
        ELSE IF option = 255 THEN [i |-> idx, opts |-> o, brk |-> TRUE]
        ELSE IF idx + 1 >= numoptbytes THEN [i |-> idx + 1, opts |-> o, brk |-> TRUE]
        ELSE LET optlen == At(data, idx + 1) IN
             IF PrematureEOF(idx + 2, optlen, numoptbytes)
             THEN [i |-> idx + 2, opts |-> o, brk |-> TRUE]
             ELSE [i |-> idx + 2 + optlen,
                   opts |-> (option :> Slice(data, idx + 2, idx + 2 + optlen)) @@ o,
                   brk |-> FALSE]

\* one iteration of the while loop of the option scan, entered with idx < len(data)
ScanStep(data, idx, o) ==
    LET numoptbytes == Len(data)
        option == At(data, idx)
    IN  IF option = 0 THEN [i |-> idx + 1, opts |-> o, brk |-> FALSE]
        ELSE IF option = 255 THEN [i |-> idx, opts |-> o, brk |-> TRUE]
        ELSE IF idx + 1 >= numoptbytes THEN [i |-> idx + 1, opts |-> o, brk |-> TRUE]
        ELSE LET optlen == At(data, idx + 1) IN
             IF PrematureEOF(idx + 2, optlen, numoptbytes)
             THEN [i |-> idx + 2, opts |-> o, brk |-> TRUE]
             ELSE [i |-> idx + 2 + optlen,
                   opts |-> (option :> Slice(data, idx + 2, idx + 2 + optlen)) @@ o,
                   brk |-> FALSE]

\* the while loop of the option scan from index idx
RECURSIVE ScanFrom(_, _, _)
ScanFrom(data, idx, o) ==
    IF idx < Len(data)
    THEN LET s == ScanStep(data, idx, o) IN
         IF s.brk THEN s ELSE ScanFrom(data, s.i, s.opts)
    ELSE [i |-> idx, opts |-> o, brk |-> FALSE]

\* optiondata = packet[240:]; opts = {}; i = 0; while ...
ProcessOptions(p) == ScanFrom(Slice(p, 240, Len(p)), 0, EmptyDict).opts

\* the 12 hour lease of the source's lease time table
LeaseOption_12h == build4byteoption(51, 0, 0, 168, 192)

\* the lease time option, 24 hours
LeaseOption == build4byteoption(51, 0, 1, 81, 128)

\* the seconds field of the request copied into the response
BuildHeader_copysecs(p, cf) ==
    [k \in 1..240 |->
        IF k = 1 THEN 2
        ELSE IF k = 2 THEN 1
        ELSE IF k = 3 THEN 6
        ELSE IF k = 4 THEN 0
        ELSE IF k > 4 /\ k <= 8 THEN Slice(p, 4, 8)[k - 4]
        ELSE IF k > 8 /\ k <= 10 THEN Slice(p, 8, 10)[k - 8]
        ELSE IF k > 10 /\ k <= 12 THEN Slice(p, 10, 12)[k - 10]
        ELSE IF k > 16 /\ k <= 20 THEN cf.baipaddr[k - 16]
        ELSE IF k > 20 /\ k <= 24 THEN cf.baipbind[k - 20]
        ELSE IF k > 28 /\ k <= 34 THEN Slice(p, 28, 34)[k - 28]
        ELSE IF k > 236 /\ k <= 240 THEN cookieconstant[k - 236]
        ELSE 0]

\* the 240 byte header of the response: offer = bytearray(240), then the
\* assignments of lines 545-562, byte k of the result being offer[k - 1]
BuildHeader(p, cf) ==
    [k \in 1..240 |->
        IF k = 1 THEN 2
        ELSE IF k = 2 THEN 1
        ELSE IF k = 3 THEN 6
        ELSE IF k = 4 THEN 0
        ELSE IF k > 4 /\ k <= 8 THEN Slice(p, 4, 8)[k - 4]
        ELSE IF k > 10 /\ k <= 12 THEN Slice(p, 10, 12)[k - 10]
        ELSE IF k > 16 /\ k <= 20 THEN cf.baipaddr[k - 16]
        ELSE IF k > 20 /\ k <= 24 THEN cf.baipbind[k - 20]
        ELSE IF k > 28 /\ k <= 34 THEN Slice(p, 28, 34)[k - 28]
        ELSE IF k > 236 /\ k <= 240 THEN cookieconstant[k - 236]
        ELSE 0]

\* the two response types exchanged
MessageTypeOption_swapped(messagetype) ==
    (IF messagetype = <<1>> THEN build1byteoption(53, 5) ELSE << >>)
    \o (IF messagetype = <<3>> THEN build1byteoption(53, 2) ELSE << >>)

\* a REQUEST answered with DHCPNAK (6)
MessageTypeOption_nak(messagetype) ==
    (IF messagetype = <<1>> THEN build1byteoption(53, 2) ELSE << >>)
    \o (IF messagetype = <<3>> THEN build1byteoption(53, 6) ELSE << >>)

\* the message type of the request put into the response
MessageTypeOption_echo(messagetype) ==
    (IF messagetype = <<1>> THEN build1byteoption(53, 1) ELSE << >>)
    \o (IF messagetype = <<3>> THEN build1byteoption(53, 3) ELSE << >>)

\* the message type option of the response
MessageTypeOption(messagetype) ==
    (IF messagetype = <<1>> THEN build1byteoption(53, 2) ELSE << >>)
    \o (IF messagetype = <<3>> THEN build1byteoption(53, 5) ELSE << >>)

\* the options of the response
AddOptions(hdr, messagetype, cf) ==
    hdr \o MessageTypeOption(messagetype)
        \o buildbyteoption(1, cf.basubnet)
        \o buildbyteoption(3, cf.bagateway)
        \o LeaseOption
        \o buildbyteoption(54, cf.baipbind)
        \o buildendoption

ResponseName(messagetype, prevname) ==
    IF messagetype = <<3>> THEN "DHCPACK"
    ELSE IF messagetype = <<1>> THEN "DHCPOFFER"
    ELSE prevname

\* DHCPINFORM (8) let through as well
Supported_inform(messagetype) ==
    ~(messagetype # <<1>> /\ messagetype # <<3>> /\ messagetype # <<8>>)

\* message type values that get a response
Supported(messagetype) == ~(messagetype # <<1>> /\ messagetype # <<3>>)

\* the magic cookie tested before the MAC address
MainLoop_cookiefirst(p, cf, prev) ==
    LET early(r) == [reason |-> r, opts |-> prev.opts, offer |-> prev.offer,
                     responsename |-> prev.responsename, built |-> FALSE]
    IN
    IF Len(p) = 0 THEN early("no bytes in packet")
    ELSE IF TooShort(p) THEN early("less than 241 bytes in packet")
    ELSE IF ~OpOk(p) THEN early("Op field not 1 (request) or 2 (reply)")
    ELSE IF ~HardwareTypeOk(p) THEN early("only hardware type 1 supported")
    ELSE IF ~HardwareLenOk(p) THEN early("only hardware address lengths of 6 supported")
    ELSE IF ~CookieOk(p) THEN early("options field does not begin with Magic Cookie")
    ELSE IF ~MacOk(p, cf.macaddr) THEN early("MAC address does not match")
    ELSE
    LET scanned == ProcessOptions(p)
        late(r) == [reason |-> r, opts |-> scanned, offer |-> prev.offer,
                    responsename |-> prev.responsename, built |-> FALSE]
    IN
    IF OPT_DHCP_MESSAGE_TYPE \notin DOMAIN scanned
    THEN late("packet does not have a DHCP Message Type option")
    ELSE LET messagetype == scanned[OPT_DHCP_MESSAGE_TYPE] IN
         IF Len(messagetype) # 1 THEN late("DHCP Message Type is not a single byte")
         ELSE IF ~Supported(messagetype) THEN late("DHCP message type not supported")
         ELSE [reason |-> "building response",
               opts |-> scanned,
               offer |-> AddOptions(BuildHeader(p, cf), messagetype, cf),
               responsename |-> ResponseName(messagetype, prev.responsename),
               built |-> TRUE]

\* the option scan without its opts = {}: the entries of the previous pass stay
MainLoop_staleopts(p, cf, prev) ==
    LET early(r) == [reason |-> r, opts |-> prev.opts, offer |-> prev.offer,
                     responsename |-> prev.responsename, built |-> FALSE]
    IN
    IF Len(p) = 0 THEN early("no bytes in packet")
    ELSE IF TooShort(p) THEN early("less than 241 bytes in packet")
    ELSE IF ~OpOk(p) THEN early("Op field not 1 (request) or 2 (reply)")
    ELSE IF ~HardwareTypeOk(p) THEN early("only hardware type 1 supported")
    ELSE IF ~HardwareLenOk(p) THEN early("only hardware address lengths of 6 supported")
    ELSE IF ~MacOk(p, cf.macaddr) THEN early("MAC address does not match")
    ELSE IF ~CookieOk(p) THEN early("options field does not begin with Magic Cookie")
    ELSE
    LET scanned == ScanFrom(Slice(p, 240, Len(p)), 0, prev.opts).opts
        late(r) == [reason |-> r, opts |-> scanned, offer |-> prev.offer,
                    responsename |-> prev.responsename, built |-> FALSE]
    IN
    IF OPT_DHCP_MESSAGE_TYPE \notin DOMAIN scanned
    THEN late("packet does not have a DHCP Message Type option")
    ELSE LET messagetype == scanned[OPT_DHCP_MESSAGE_TYPE] IN
         IF Len(messagetype) # 1 THEN late("DHCP Message Type is not a single byte")
         ELSE IF ~Supported(messagetype) THEN late("DHCP message type not supported")
         ELSE [reason |-> "building response",
               opts |-> scanned,
               offer |-> AddOptions(BuildHeader(p, cf), messagetype, cf),
               responsename |-> ResponseName(messagetype, prev.responsename),
               built |-> TRUE]

\* One pass of the main loop from the recvfrom to the built response or to the
\* continue statement.  prev holds opts, offer and responsename as the
\* previous pass left them.
MainLoop(p, cf, prev) ==
    LET early(r) == [reason |-> r, opts |-> prev.opts, offer |-> prev.offer,
                     responsename |-> prev.responsename, built |-> FALSE]
    IN
    IF Len(p) = 0 THEN early("no bytes in packet")
    ELSE IF TooShort(p) THEN early("less than 241 bytes in packet")
    ELSE IF ~OpOk(p) THEN early("Op field not 1 (request) or 2 (reply)")
    ELSE IF ~HardwareTypeOk(p) THEN early("only hardware type 1 supported")
    ELSE IF ~HardwareLenOk(p) THEN early("only hardware address lengths of 6 supported")
    ELSE IF ~MacOk(p, cf.macaddr) THEN early("MAC address does not match")
    ELSE IF ~CookieOk(p) THEN early("options field does not begin with Magic Cookie")
    ELSE
    LET scanned == ProcessOptions(p)
        late(r) == [reason |-> r, opts |-> scanned, offer |-> prev.offer,
                    responsename |-> prev.responsename, built |-> FALSE]
    IN
    IF OPT_DHCP_MESSAGE_TYPE \notin DOMAIN scanned
    THEN late("packet does not have a DHCP Message Type option")
    ELSE LET messagetype == scanned[OPT_DHCP_MESSAGE_TYPE] IN
         IF Len(messagetype) # 1 THEN late("DHCP Message Type is not a single byte")
         ELSE IF ~Supported(messagetype) THEN late("DHCP message type not supported")
         ELSE [reason |-> "building response",
               opts |-> scanned,
               offer |-> AddOptions(BuildHeader(p, cf), messagetype, cf),
               responsename |-> ResponseName(messagetype, prev.responsename),
               built |-> TRUE]

-----------------------------------------------------------------------------
(* Startup: lines 315-408 *)

FlagM == <<"-", "m">>
FlagB == <<"-", "b">>
FlagI == <<"-", "i">>
FlagS == <<"-", "s">>
FlagG == <<"-", "g">>

\* the defaults: macaddr = ipbind = ipaddr = subnet = gateway = ""
ArgDefaults ==
    [ok |-> TRUE, macaddr |-> << >>, ipbind |-> << >>, ipaddr |-> << >>,
     subnet |-> << >>, gateway |-> << >>]

\* the loop through the command line arguments, from argument arg on
RECURSIVE ParseArgsFrom(_, _, _)
ParseArgsFrom(args, arg, st) ==
    IF ~(arg < Len(args)) THEN st
    ELSE IF args[arg] = FlagM
    THEN ParseArgsFrom(args, arg + 2, [st EXCEPT !.macaddr = Upper(args[arg + 1])])
    ELSE IF args[arg] = FlagB
    THEN ParseArgsFrom(args, arg + 2, [st EXCEPT !.ipbind = args[arg + 1]])
    ELSE IF args[arg] = FlagI
    THEN ParseArgsFrom(args, arg + 2, [st EXCEPT !.ipaddr = args[arg + 1]])
    ELSE IF args[arg] = FlagS
    THEN ParseArgsFrom(args, arg + 2, [st EXCEPT !.subnet = args[arg + 1]])
    ELSE IF args[arg] = FlagG
    THEN ParseArgsFrom(args, arg + 2, [st EXCEPT !.gateway = args[arg + 1]])
    ELSE [st EXCEPT !.ok = FALSE]

\* The main code up to the bind of the receiving socket: the configuration the
\* loop runs with, or the message the program exits with.
Configure(args) ==
    LET numargs == Len(args)
        st == ParseArgsFrom(args, 1, ArgDefaults)
        b == ip2bytearray(st.ipbind)
        a == ip2bytearray(st.ipaddr)
        s == ip2bytearray(st.subnet)
        g == ip2bytearray(st.gateway)
        stop(msg) == [exit |-> msg, macaddr |-> << >>, baipbind |-> << >>,
                      baipaddr |-> << >>, basubnet |-> << >>, bagateway |-> << >>]
    IN  IF (numargs % 2) # 0 THEN stop("odd number of command line arguments")
        ELSE IF ~st.ok THEN stop("unrecognised command line argument")
        ELSE IF st.macaddr = << >> THEN stop("MAC address not specified")
        ELSE IF st.ipbind = << >> THEN stop("interface IP address not specified")
        ELSE IF b.errmsg # "OK" THEN stop("bad IP address for -b option")
        ELSE IF a.errmsg # "OK" THEN stop("bad IP address for -i option")
        ELSE IF s.errmsg # "OK" THEN stop("bad subnet mask for -s option")
        ELSE IF g.errmsg # "OK" THEN stop("bad gateway address for -g option")
        ELSE [exit |-> "", macaddr |-> st.macaddr, baipbind |-> b.ba,
              baipaddr |-> a.ba, basubnet |-> s.ba, bagateway |-> g.ba]

\* the configuration as the main loop reads it
Conf ==
    [macaddr |-> macaddr, baipbind |-> baipbind, baipaddr |-> baipaddr,
     basubnet |-> basubnet, bagateway |-> bagateway]

-----------------------------------------------------------------------------
(* Command lines and datagrams the model runs the program on *)

MacTextA == <<"a", "a", ":", "b", "b", ":", "c", "c", ":", "0", "0", ":", "1", "e", ":", "f", "2">>
MacTextB == <<"0", "2", ":", "0", "0", ":", "5", "E", ":", "1", "0", ":", "0", "0", ":", "F", "F">>
\* a -m value that is no MAC address
MacTextShort == <<"a", "b", ":", "c", "d">>
MacA == <<170, 187, 204, 0, 30, 242>>
MacB == <<2, 0, 94, 16, 0, 255>>

ArgvOf(m, b, a, s, g) == <<FlagM, m, FlagB, b, FlagI, a, FlagS, s, FlagG, g>>

ArgvA ==
    ArgvOf(MacTextA, <<"1", "0", ".", "0", ".", "0", ".", "1">>, <<"1", "0", ".", "0", ".", "0", ".", "1", "0", "0">>,
           <<"2", "5", "5", ".", "2", "5", "5", ".", "2", "5", "5", ".", "0">>, <<"1", "0", ".", "0", ".", "0", ".", "2", "5", "4">>)
ArgvB ==
    ArgvOf(MacTextB, <<"1", "9", "2", ".", "1", "6", "8", ".", "2", ".", "5", "3">>, <<"1", "9", "2", ".", "1", "6", "8", ".", "2", ".", "1", "0", "0">>,
           <<"2", "5", "5", ".", "2", "5", "5", ".", "0", ".", "0">>, <<"1", "9", "2", ".", "1", "6", "8", ".", "2", ".", "2", "5", "4">>)

\* valid addresses with a -m value that is no MAC address
ArgvC == ArgvOf(MacTextShort, ArgvA[4], ArgvA[6], ArgvA[8], ArgvA[10])

BadArgvs ==
    { ArgvOf(<< >>, ArgvA[4], ArgvA[6], ArgvA[8], ArgvA[10]),
      ArgvOf(MacTextA, << >>, ArgvA[6], ArgvA[8], ArgvA[10]),
      ArgvOf(MacTextA, <<"1", "0", ".", "0", ".", "0">>, ArgvA[6], ArgvA[8], ArgvA[10]),
      ArgvOf(MacTextA, ArgvA[4], <<"1", "0", ".", "0", ".", "0", ".", "1", ".", "2">>, ArgvA[8], ArgvA[10]),
      ArgvOf(MacTextA, ArgvA[4], ArgvA[6], <<"2", "5", "5", ".", "2", "5", "5", ".", "2", "5", "5", ".", "2", "5", "6">>, ArgvA[10]),
      ArgvOf(MacTextA, ArgvA[4], ArgvA[6], ArgvA[8], <<"1", "0", ".", "0", ".", ".", "2", "5", "4">>),
      ArgvOf(MacTextA, ArgvA[4], ArgvA[6], ArgvA[8], <<"1", "0", ".", "0", ".", "0", ".", "x">>),
      SubSeq(ArgvA, 1, 8),
      SubSeq(ArgvA, 1, 9),
      <<<<"-", "x">>, MacTextA>> \o SubSeq(ArgvA, 3, 10) }

Argvs == {ArgvA, ArgvB, ArgvC} \cup BadArgvs

GoodCookie == <<99, 130, 83, 99>>
BadCookie == <<99, 130, 83, 98>>

Xid0 == <<0, 0, 0, 0>>
Xid1 == <<222, 173, 190, 239>>
Flags0 == <<0, 0>>
Flags1 == <<128, 0>>

Fill(n, b) == [k \in 1..n |-> b]

\* a datagram laid out as the packet format comment of the source describes
MkPacket(op, htype, hlen, mac, cookie, xid, flags, fill, options) ==
    <<op, htype, hlen, fill>> \o xid \o Fill(2, fill) \o flags \o Fill(16, fill)
        \o mac \o Fill(10, fill) \o Fill(192, fill) \o cookie \o options

Discover == <<53, 1, 1, 255>>
Request == <<53, 1, 3, 255>>

\* option areas: message types, missing and mis-sized message types, PAD, END,
\* duplicates, truncations and other options
OptionAreas ==
    { Discover, Request,
      <<53, 1, 2, 255>>, <<53, 1, 4, 255>>, <<53, 1, 5, 255>>, <<53, 1, 7, 255>>,
      <<53, 1, 8, 255>>,
      <<255>>, <<0>>, <<12, 2, 104, 105, 255>>,
      <<53, 0, 255>>, <<53, 2, 1, 3, 255>>,
      <<53, 1, 1>>, <<53, 1>>, <<53>>, <<53, 4, 1, 255>>,
      <<0, 0, 53, 1, 1, 0, 255>>,
      <<53, 1, 1, 53, 1, 3, 255>>, <<53, 1, 3, 53, 1, 1, 255>>,
      <<53, 1, 1, 53, 2, 1, 1, 255>>,
      <<53, 1, 1, 53, 1, 3, 53, 4, 1>>,
      <<255, 53, 1, 1, 255>>,
      <<50, 4, 10, 0, 0, 9, 53, 1, 1, 54, 4, 1, 2, 3, 4, 255>>,
      <<53, 1, 3, 255, 0, 0>>,
      <<12, 2, 0, 255, 53, 1, 3, 255>> }

\* every combination of header fields, each answered if the header were valid
HeaderSweep ==
    { MkPacket(op, htype, hlen, mac, cookie, Xid0, Flags0, 0, Discover) :
        op \in {1, 2, 3}, htype \in {1, 2}, hlen \in {6, 16},
        mac \in {MacA, MacB}, cookie \in {GoodCookie, BadCookie} }

\* valid headers with every option area
OptionSweep ==
    { MkPacket(h[1], 1, 6, h[2], GoodCookie, h[3], h[4], h[5], o) :
        h \in { <<1, MacA, Xid0, Flags0, 0>>, <<1, MacA, Xid1, Flags1, 7>>,
                <<2, MacA, Xid0, Flags0, 0>>, <<1, MacB, Xid1, Flags1, 7>> },
        o \in OptionAreas }

TruncLens == {0, 1, 34, 239, 240}

\* datagrams cut short of the first option byte
ShortSweep ==
    { Slice(MkPacket(1, 1, 6, mac, GoodCookie, Xid1, Flags1, 0, Discover), 0, n) :
        mac \in {MacA, MacB}, n \in TruncLens }

\* requests that differ from those of OptionSweep in the fields the response
\* does not depend on
FieldSweep ==
    { MkPacket(h[1], 1, 6, h[2], GoodCookie, h[3], h[4], h[5], o) :
        h \in { <<1, MacA, Xid0, Flags0, 7>>, <<2, MacB, Xid1, Flags1, 0>> },
        o \in { Discover, Request,
                <<50, 4, 10, 0, 0, 9, 53, 1, 1, 54, 4, 1, 2, 3, 4, 255>> } }

Datagrams == HeaderSweep \cup OptionSweep \cup ShortSweep \cup FieldSweep

-----------------------------------------------------------------------------
(* The server *)

\* the number of datagrams a run of the model receives
MaxDatagrams == 2

CodecIdle ==
    /\ cpc = "idle"
    /\ optnum = 0
    /\ ba = << >>
    /\ opt = << >>
    /\ optiondata = << >>
    /\ i = 0

Init ==
    /\ pc = "start"
    /\ argv \in Argvs
    /\ macaddr = << >>
    /\ baipbind = << >>
    /\ baipaddr = << >>
    /\ basubnet = << >>
    /\ bagateway = << >>
    /\ packet = << >>
    /\ opts = EmptyDict
    /\ offer = << >>
    /\ responsename = ""
    /\ reason = ""
    /\ sendsock = "none"
    /\ wire = << >>
    /\ received = 0
    /\ CodecIdle

\* lines 315-408: parse and check the command line, bind the receiving socket
Startup ==
    /\ pc = "start"
    /\ \E c \in {Configure(argv)} :
        /\ pc' = IF c.exit = "" THEN "waiting" ELSE "exited"
        /\ reason' = c.exit
        /\ macaddr' = c.macaddr
        /\ baipbind' = c.baipbind
        /\ baipaddr' = c.baipaddr
        /\ basubnet' = c.basubnet
        /\ bagateway' = c.bagateway
    /\ UNCHANGED <<argv, packet, opts, offer, responsename, sendsock, wire, received>>
    /\ UNCHANGED codecvars

\* lines 411-582: receive a datagram and process it up to the continue
\* statement that drops it or to the built response
Receive(p) ==
    /\ pc = "waiting"
    /\ received < MaxDatagrams
    /\ received' = received + 1
    /\ \E r \in {MainLoop(p, Conf, [opts |-> opts, offer |-> offer,
                                    responsename |-> responsename])} :
        /\ packet' = p
        /\ opts' = r.opts
        /\ offer' = r.offer
        /\ responsename' = r.responsename
        /\ reason' = r.reason
        /\ pc' = IF r.built THEN "built" ELSE "waiting"
    /\ wire' = << >>
    /\ UNCHANGED <<argv, sendsock>>
    /\ UNCHANGED confvars
    /\ UNCHANGED codecvars

\* lines 586-588: open the transmitting socket
OpenSendSock ==
    /\ pc = "built"
    /\ sendsock' = "open"
    /\ pc' = "sockopen"
    /\ UNCHANGED <<argv, packet, opts, offer, responsename, reason, wire, received>>
    /\ UNCHANGED confvars
    /\ UNCHANGED codecvars

\* lines 589-590: broadcast the response to port 68
SendTo ==
    /\ pc = "sockopen"
    /\ sendsock = "open"
    /\ wire' = Append(wire, [data |-> offer, host |-> <<255, 255, 255, 255>>, port |-> 68])
    /\ pc' = "sent"
    /\ UNCHANGED <<argv, packet, opts, offer, responsename, reason, sendsock, received>>
    /\ UNCHANGED confvars
    /\ UNCHANGED codecvars

\* back to recvfrom without sendsock.close()
CloseSendSock_leak ==
    /\ pc = "sent"
    /\ pc' = "waiting"
    /\ UNCHANGED <<argv, packet, opts, offer, responsename, reason, sendsock, wire, received>>
    /\ UNCHANGED confvars
    /\ UNCHANGED codecvars

\* lines 591-592: close the transmitting socket and go round the loop
CloseSendSock ==
    /\ pc = "sent"
    /\ sendsock' = "closed"
    /\ pc' = "waiting"
    /\ UNCHANGED <<argv, packet, opts, offer, responsename, reason, wire, received>>
    /\ UNCHANGED confvars
    /\ UNCHANGED codecvars

Next ==
    \/ Startup
    \/ \E p \in Datagrams : Receive(p)
    \/ OpenSendSock
    \/ SendTo
    \/ CloseSendSock

Spec == Init /\ [][Next]_vars

-----------------------------------------------------------------------------
(* The main loop statement by statement: the checks up to the magic cookie,  *)
(* the option scan one iteration per step, the checks on option 53 with the  *)
(* building of the response, and the three socket calls                      *)

\* the checks before the option scan, lines 417-483: the diagnostic of the
\* continue statement taken, or "" when the datagram goes on to the scan
EarlyReason(p, cf) ==
    IF Len(p) = 0 THEN "no bytes in packet"
    ELSE IF TooShort(p) THEN "less than 241 bytes in packet"
    ELSE IF ~OpOk(p) THEN "Op field not 1 (request) or 2 (reply)"
    ELSE IF ~HardwareTypeOk(p) THEN "only hardware type 1 supported"
    ELSE IF ~HardwareLenOk(p) THEN "only hardware address lengths of 6 supported"
    ELSE IF ~MacOk(p, cf.macaddr) THEN "MAC address does not match"
    ELSE IF ~CookieOk(p) THEN "options field does not begin with Magic Cookie"
    ELSE ""

\* lines 415-491: receive a datagram, run the checks up to the magic cookie and
\* set up the option scan
RecvStep(p) ==
    /\ pc = "waiting"
    /\ received < MaxDatagrams
    /\ received' = received + 1
    /\ packet' = p
    /\ wire' = << >>
    /\ \E r \in {EarlyReason(p, Conf)} :
        IF r # ""
        THEN /\ reason' = r
             /\ pc' = "waiting"
             /\ UNCHANGED <<opts, optiondata, i>>
        ELSE /\ optiondata' = Slice(p, 240, Len(p))
             /\ opts' = EmptyDict
             /\ i' = 0
             /\ pc' = "scan"
             /\ UNCHANGED reason
    /\ UNCHANGED <<argv, offer, responsename, sendsock>>
    /\ UNCHANGED <<cpc, optnum, ba, opt>>
    /\ UNCHANGED confvars

\* lines 494-521: one test of the while condition and, when it holds, one
\* iteration of the option scan
ScanLoop ==
    /\ pc = "scan"
    /\ IF i < Len(optiondata)
       THEN \E s \in {ScanStep(optiondata, i, opts)} :
               /\ i' = s.i
               /\ opts' = s.opts
               /\ pc' = IF s.brk THEN "classify" ELSE "scan"
       ELSE /\ pc' = "classify"
            /\ UNCHANGED <<i, opts>>
    /\ UNCHANGED <<argv, packet, offer, responsename, reason, sendsock, wire, received>>
    /\ UNCHANGED <<cpc, optnum, ba, opt, optiondata>>
    /\ UNCHANGED confvars

\* lines 525-579: the checks on option 53, then the response
Classify ==
    /\ pc = "classify"
    /\ IF OPT_DHCP_MESSAGE_TYPE \notin DOMAIN opts
       THEN /\ reason' = "packet does not have a DHCP Message Type option"
            /\ pc' = "waiting"
            /\ UNCHANGED <<offer, responsename>>
       ELSE IF Len(opts[OPT_DHCP_MESSAGE_TYPE]) # 1
       THEN /\ reason' = "DHCP Message Type is not a single byte"
            /\ pc' = "waiting"
            /\ UNCHANGED <<offer, responsename>>
       ELSE IF ~Supported(opts[OPT_DHCP_MESSAGE_TYPE])
       THEN /\ reason' = "DHCP message type not supported"
            /\ pc' = "waiting"
            /\ UNCHANGED <<offer, responsename>>
       ELSE /\ reason' = "building response"
            /\ offer' = AddOptions(BuildHeader(packet, Conf),
                                   opts[OPT_DHCP_MESSAGE_TYPE], Conf)
            /\ responsename' = ResponseName(opts[OPT_DHCP_MESSAGE_TYPE], responsename)
            /\ pc' = "built"
    /\ UNCHANGED <<argv, packet, opts, sendsock, wire, received>>
    /\ UNCHANGED codecvars
    /\ UNCHANGED confvars

NextLoop ==
    \/ Startup
    \/ \E p \in Datagrams : RecvStep(p)
    \/ ScanLoop
    \/ Classify
    \/ OpenSendSock
    \/ SendTo
    \/ CloseSendSock

\* the single thread runs each statement it has reached; only recvfrom waits
\* for the network
SpecLoop ==
    /\ Init
    /\ [][NextLoop]_vars
    /\ WF_vars(ScanLoop)
    /\ WF_vars(Classify)
    /\ WF_vars(OpenSendSock)
    /\ WF_vars(SendTo)
    /\ WF_vars(CloseSendSock)

-----------------------------------------------------------------------------

(* The option codec on its own: buildbyteoption, buildendoption and the      *)
(* option scan of the main loop, one loop iteration per step                 *)

\* the longest payload of the short payloads the encoder is run on
MaxPayloadLen == 2

PayloadBytes == {0, 7, 255}

ShortPayloads ==
    UNION { [1..n -> PayloadBytes] : n \in 0..MaxPayloadLen }

LongPayloads == { Fill(254, 255), Fill(255, 0), Fill(255, 7) }

Payloads == ShortPayloads \cup LongPayloads

OptionCodes == {1, 53, 254}

\* the option areas and everything they are cut down to
Buffers == UNION { { SubSeq(d, 1, n) : n \in 0..Len(d) } : d \in OptionAreas }

InitCodec ==
    /\ pc = "codec"
    /\ argv = << >>
    /\ macaddr = << >>
    /\ baipbind = << >>
    /\ baipaddr = << >>
    /\ basubnet = << >>
    /\ bagateway = << >>
    /\ packet = << >>
    /\ opts = EmptyDict
    /\ offer = << >>
    /\ responsename = ""
    /\ reason = ""
    /\ sendsock = "none"
    /\ wire = << >>
    /\ received = 0
    /\ cpc = "init"
    /\ opt = << >>
    /\ i = 0
    /\ \/ optnum \in OptionCodes /\ ba \in Payloads /\ optiondata = << >>
       \/ optnum = 0 /\ ba = << >> /\ optiondata \in Buffers

\* buildbyteoption(optnum, ba)
Encode ==
    /\ cpc = "init"
    /\ optnum # 0
    /\ opt' = buildbyteoption(optnum, ba)
    /\ cpc' = "encoded"
    /\ UNCHANGED <<optnum, ba, optiondata, i, opts>>
    /\ UNCHANGED <<pc, argv, packet, offer, responsename, reason, sendsock, wire, received>>
    /\ UNCHANGED confvars

\* the encoded option followed by buildendoption() becomes the option area:
\* lines 489-493
AppendEnd ==
    /\ cpc = "encoded"
    /\ optiondata' = opt \o buildendoption
    /\ opts' = EmptyDict
    /\ i' = 0
    /\ cpc' = "scan"
    /\ UNCHANGED <<optnum, ba, opt>>
    /\ UNCHANGED <<pc, argv, packet, offer, responsename, reason, sendsock, wire, received>>
    /\ UNCHANGED confvars

\* a received option area: lines 489-493
StartScan ==
    /\ cpc = "init"
    /\ optnum = 0
    /\ opts' = EmptyDict
    /\ i' = 0
    /\ cpc' = "scan"
    /\ UNCHANGED <<optnum, ba, opt, optiondata>>
    /\ UNCHANGED <<pc, argv, packet, offer, responsename, reason, sendsock, wire, received>>
    /\ UNCHANGED confvars

\* one test of the while condition and, when it holds, one iteration: lines 494-521
ScanIter ==
    /\ cpc = "scan"
    /\ IF i < Len(optiondata)
       THEN \E s \in {ScanStep(optiondata, i, opts)} :
               /\ i' = s.i
               /\ opts' = s.opts
               /\ cpc' = IF s.brk THEN "done" ELSE "scan"
       ELSE /\ cpc' = "done"
            /\ UNCHANGED <<i, opts>>
    /\ UNCHANGED <<optnum, ba, opt, optiondata>>
    /\ UNCHANGED <<pc, argv, packet, offer, responsename, reason, sendsock, wire, received>>
    /\ UNCHANGED confvars

NextCodec ==
    \/ Encode
    \/ AppendEnd
    \/ StartScan
    \/ ScanIter

SpecCodec == InitCodec /\ [][NextCodec]_vars

-----------------------------------------------------------------------------
(* What the properties are stated with: the datagram and the configuration   *)
(* read independently of the program's own functions                         *)

\* the last datagram has been processed up to the drop or the built response
Handled == received > 0

\* the last datagram is being answered or has been answered
Answered == pc \in {"built", "sockopen", "sent"} \/ (pc = "waiting" /\ wire # << >>)

\* the last datagram was dropped
NoReply == pc = "waiting" /\ wire = << >>

\* the response to the last datagram
TheReply == IF wire # << >> THEN wire[1].data ELSE offer

HexValue(c) ==
    CHOOSE v \in 0..15 :
        \/ HexChars[v + 1] = c
        \/ v >= 10 /\ Lowers[v - 9] = c

\* the six bytes a colon separated MAC text denotes, in either case
MacBytesOf(text) ==
    [k \in 1..6 |-> 16 * HexValue(text[3 * k - 2]) + HexValue(text[3 * k - 1])]

LowerChar(c) ==
    IF \E k \in 1..Len(Uppers) : Uppers[k] = c
    THEN Lowers[CHOOSE k \in 1..Len(Uppers) : Uppers[k] = c]
    ELSE c

LowerText(text) == [k \in 1..Len(text) |-> LowerChar(text[k])]

UpperText(text) == [k \in 1..Len(text) |-> UpperChar(text[k])]

\* the four bytes a dotted decimal text denotes
DottedBytes(text) ==
    LET octets == SplitDot(text, << >>, << >>) IN [k \in 1..4 |-> IntOf(octets[k])]

\* a text of six two-digit hexadecimal groups separated by colons
CanonicalMac(text) ==
    /\ Len(text) = 17
    /\ \A k \in 1..17 :
           IF k % 3 = 0 THEN text[k] = ":"
           ELSE \E v \in 1..16 : HexChars[v] = text[k] \/ (v > 10 /\ Lowers[v - 10] = text[k])

\* the command line values of a run that reached the main loop; a -m text that
\* is not in the colon separated form denotes no MAC address
ConfiguredMacText == argv[2]
ConfiguredMac == IF CanonicalMac(argv[2]) THEN MacBytesOf(argv[2]) ELSE << >>
ConfiguredBind == DottedBytes(argv[4])
ConfiguredOffered == DottedBytes(argv[6])
ConfiguredSubnet == DottedBytes(argv[8])
ConfiguredGateway == DottedBytes(argv[10])

\* An option area read as the TLV format defines it: the entries in order and
\* how the area ends (END, EOF after a complete entry, TRUNC inside an entry).
RECURSIVE TlvParse(_, _, _)
TlvParse(data, idx, acc) ==
    IF idx >= Len(data) THEN [entries |-> acc, end |-> "EOF"]
    ELSE IF data[idx + 1] = 0 THEN TlvParse(data, idx + 1, acc)
    ELSE IF data[idx + 1] = 255 THEN [entries |-> acc, end |-> "END"]
    ELSE IF idx + 1 >= Len(data) THEN [entries |-> acc, end |-> "TRUNC"]
    ELSE IF idx + 2 + data[idx + 2] > Len(data) THEN [entries |-> acc, end |-> "TRUNC"]
    ELSE TlvParse(data, idx + 2 + data[idx + 2],
                  Append(acc, <<data[idx + 1],
                                IF data[idx + 2] = 0 THEN << >>
                                ELSE SubSeq(data, idx + 3, idx + 2 + data[idx + 2])>>))

Tlv(data) == TlvParse(data, 0, << >>)

\* the payloads an option code has among the entries
PayloadsOf(entries, code) ==
    { entries[k][2] : k \in { j \in 1..Len(entries) : entries[j][1] = code } }

\* the mapping the entries give when a later entry replaces an earlier one
RECURSIVE TlvMap(_)
TlvMap(entries) ==
    IF entries = << >> THEN EmptyDict
    ELSE (entries[Len(entries)][1] :> entries[Len(entries)][2])
             @@ TlvMap(SubSeq(entries, 1, Len(entries) - 1))

OptionArea(p) == IF Len(p) > 240 THEN SubSeq(p, 241, Len(p)) ELSE << >>

ValidHeader(p) ==
    /\ Len(p) >= 241
    /\ p[1] \in {1, 2}
    /\ p[2] = 1
    /\ p[3] = 6
    /\ SubSeq(p, 237, 240) = <<99, 130, 83, 99>>

FromConfiguredMac(p) == Len(p) >= 34 /\ SubSeq(p, 29, 34) = ConfiguredMac

\* a well-formed DISCOVER from the configured MAC
WellFormedDiscover(p) ==
    /\ ValidHeader(p)
    /\ p[1] = 1
    /\ FromConfiguredMac(p)
    /\ Tlv(OptionArea(p)).end = "END"
    /\ PayloadsOf(Tlv(OptionArea(p)).entries, 53) = {<<1>>}

-----------------------------------------------------------------------------
(* Properties *)

\* C1: a well-formed DISCOVER from the configured MAC (length >= 241, op 1,
\* hardware type 1, hardware address length 6, cookie 99,130,83,99, an END
\* terminated option area whose option 53 is the byte 1) gets a reply with
\* byte0 = 2, the request's transaction-id, option 53 = 2 and option 54 = the
\* configured bind address.
C1_DiscoverGetsOffer ==
    (Handled /\ WellFormedDiscover(packet)) =>
        /\ Answered
        /\ TheReply[1] = 2
        /\ SubSeq(TheReply, 5, 8) = SubSeq(packet, 5, 8)
        /\ Tlv(OptionArea(TheReply)).end = "END"
        /\ PayloadsOf(Tlv(OptionArea(TheReply)).entries, 53) = {<<2>>}
        /\ PayloadsOf(Tlv(OptionArea(TheReply)).entries, 54) = {ConfiguredBind}

C1_Witness ==
    /\ Handled
    /\ WellFormedDiscover(packet)
    /\ SubSeq(packet, 5, 8) = Xid1
    /\ wire # << >>

\* the datagrams that differ from p in exactly one byte of the option area
\* and whose decoded option 53 is the byte 3
RequestTwins(p) ==
    { q \in Datagrams :
        /\ Len(q) = Len(p)
        /\ Cardinality({k \in 1..Len(q) : q[k] # p[k]}) = 1
        /\ SubSeq(q, 1, 240) = SubSeq(p, 1, 240)
        /\ 53 \in DOMAIN ProcessOptions(q)
        /\ ProcessOptions(q)[53] = <<3>> }

\* C2: two accepted datagrams from the configured MAC that differ only in the
\* decoded option 53 payload, 1 in one and 3 in the other, both get a reply,
\* and the replies are equal byte for byte except the option 53 payload byte,
\* 2 for the first and 5 for the second.
C2_OfferAckTwins ==
    (Handled /\ Answered /\ 53 \in DOMAIN opts /\ opts[53] = <<1>>) =>
        /\ TheReply[243] = 2
        /\ \A q \in RequestTwins(packet) :
              \E r \in {MainLoop(q, Conf, [opts |-> opts, offer |-> offer,
                                           responsename |-> responsename])} :
                  /\ r.built
                  /\ r.offer = [TheReply EXCEPT ![243] = 5]

C2_Witness ==
    /\ Handled
    /\ Answered
    /\ 53 \in DOMAIN opts
    /\ opts[53] = <<1>>
    /\ RequestTwins(packet) # {}

\* the configuration of the same command line with the -m value in the given case
ConfWithMac(text) == Configure([argv EXCEPT ![2] = text])

\* C3: a datagram whose bytes 28..33 differ from the configured target MAC
\* gets no reply, and the -m value given in lower case and given in upper
\* case answer exactly the same datagrams.
C3_SingleHostFilter ==
    Handled =>
        /\ (Len(packet) >= 34 /\ SubSeq(packet, 29, 34) # ConfiguredMac) => NoReply
        /\ \A text \in {LowerText(ConfiguredMacText), UpperText(ConfiguredMacText)} :
              MainLoop(packet, ConfWithMac(text),
                       [opts |-> opts, offer |-> offer,
                        responsename |-> responsename]).built = Answered

C3_Witness ==
    /\ Handled
    /\ ValidHeader(packet)
    /\ SubSeq(packet, 29, 34) # ConfiguredMac
    /\ PayloadsOf(Tlv(OptionArea(packet)).entries, 53) = {<<1>>}
    /\ ConfiguredMacText = LowerText(ConfiguredMacText)
    /\ ConfiguredMacText # UpperText(ConfiguredMacText)
    /\ NoReply

\* C4: every datagram of 0..240 bytes is dropped at the length checks and gets
\* no reply, a 240 byte datagram with a valid header, the configured MAC and
\* the cookie included.
C4_ShortDropped ==
    (Handled /\ Len(packet) <= 240) =>
        /\ NoReply
        /\ reason \in {"no bytes in packet", "less than 241 bytes in packet"}

C4_Witness ==
    /\ Handled
    /\ Len(packet) = 240
    /\ packet[1] = 1 /\ packet[2] = 1 /\ packet[3] = 6
    /\ SubSeq(packet, 29, 34) = ConfiguredMac
    /\ SubSeq(packet, 237, 240) = <<99, 130, 83, 99>>
    /\ NoReply

\* C5: a datagram of 241 bytes or more whose opcode is not 1 or 2, or whose
\* hardware type is not 1, or whose hardware address length is not 6, or whose
\* bytes 236..239 are not 99,130,83,99, gets no reply.
C5_HeaderValidation ==
    (Handled /\ Len(packet) >= 241 /\ ~ValidHeader(packet)) => NoReply

C5_Witness ==
    /\ Handled
    /\ Len(packet) >= 241
    /\ packet[1] = 1 /\ packet[2] = 1 /\ packet[3] = 6
    /\ FromConfiguredMac(packet)
    /\ SubSeq(packet, 237, 240) # <<99, 130, 83, 99>>
    /\ PayloadsOf(Tlv(OptionArea(packet)).entries, 53) = {<<1>>}
    /\ NoReply

\* C6: a datagram that passes the length, header and MAC checks gets no reply,
\* and the server goes on, when its decoded options hold no option 53, or an
\* option 53 whose payload is not one byte long, or a one byte option 53
\* other than 1 and 3.
C6_MessageTypeClassification ==
    (/\ Handled
     /\ ValidHeader(packet)
     /\ FromConfiguredMac(packet)
     /\ \/ 53 \notin DOMAIN opts
        \/ Len(opts[53]) # 1
        \/ opts[53] \notin {<<1>>, <<3>>})
    => NoReply

C6_Witness ==
    /\ Handled
    /\ ValidHeader(packet)
    /\ FromConfiguredMac(packet)
    /\ 53 \in DOMAIN opts
    /\ opts[53] = <<8>>
    /\ NoReply

\* C7: the option area of every reply is [53,1,t] with t = 2 or 5,
\* [1,4,subnet mask], [3,4,gateway], [51,4,0,1,81,128], [54,4,bind address],
\* [255] in this order, and every reply is 268 bytes long.
C7_ReplyOptions ==
    Answered =>
        /\ Len(TheReply) = 268
        /\ TheReply[243] \in {2, 5}
        /\ OptionArea(TheReply) =
              <<53, 1, TheReply[243]>> \o <<1, 4>> \o ConfiguredSubnet
                  \o <<3, 4>> \o ConfiguredGateway \o <<51, 4, 0, 1, 81, 128>>
                  \o <<54, 4>> \o ConfiguredBind \o <<255>>

C7_Witness ==
    /\ Answered
    /\ wire # << >>
    /\ TheReply[243] = 5
    /\ ConfiguredSubnet = <<255, 255, 0, 0>>

\* C8: decoding the encoder's bytes for (code, payload) followed by END gives
\* the mapping with the single entry code -> payload, the empty payload
\* included.
C8_OptionRoundTrip ==
    (cpc = "done" /\ optnum # 0) => opts = (optnum :> ba)

C8_Witness ==
    /\ cpc = "done"
    /\ optnum = 254
    /\ Len(ba) = 255
    /\ opts = (optnum :> ba)

\* C9: the option scan stops early only when the length byte is missing or the
\* payload would run past the end of the buffer, and then gives exactly the
\* entries decoded before; every option that lies wholly inside the buffer
\* before the first END, one whose payload ends on the last byte of the buffer
\* included, is in the decoded mapping.
C9_TruncationPolicy ==
    cpc = "done" => opts = TlvMap(Tlv(optiondata).entries)

\* C10: the option encoder gives [code, len(payload), payload...] for a
\* non-empty payload and the single byte [code] for an empty payload.
C10_EncoderBytes ==
    (cpc = "encoded") =>
        opt = IF ba = << >> THEN <<optnum>> ELSE <<optnum, Len(ba)>> \o ba

\* the byte at offset k - 1 of the reply header frame, read off the request
\* and the command line
FrameByte(k) ==
    IF k = 1 THEN 2
    ELSE IF k = 2 THEN 1
    ELSE IF k = 3 THEN 6
    ELSE IF k \in 5..8 \cup 11..12 \cup 29..34 THEN packet[k]
    ELSE IF k \in 17..20 THEN ConfiguredOffered[k - 16]
    ELSE IF k \in 21..24 THEN ConfiguredBind[k - 20]
    ELSE IF k \in 237..240 THEN <<99, 130, 83, 99>>[k - 236]
    ELSE 0

\* C11: in every reply bytes 0..239 are byte0 = 2, byte1 = 1, byte2 = 6,
\* byte3 = 0, bytes 4..7 the request's transaction-id, bytes 10..11 the
\* request's flags, bytes 16..19 the configured offered address, bytes 20..23
\* the configured bind address, bytes 28..33 the request's hardware address,
\* bytes 236..239 = 99,130,83,99, and every other byte 0 whatever the request
\* carried there.
C11_ReplyHeaderFrame ==
    Answered =>
        /\ Len(TheReply) >= 240
        /\ \A k \in 1..240 : TheReply[k] = FrameByte(k)

\* a request with non-zero hops, seconds, ciaddr, giaddr, sname and file is
\* answered
C11_Witness ==
    /\ Answered
    /\ \A k \in {4, 9, 10, 13, 25, 45, 109, 236} : packet[k] # 0
    /\ TheReply[9] = 0

BadCookieIn(p) == SubSeq(p, 237, 240) # <<99, 130, 83, 99>>

MacMismatchIn(p) == SubSeq(p, 29, 34) # ConfiguredMac

\* the diagnostic of the first failing check among those on the decoded
\* options, for a datagram that reached the option scan
OptionReason ==
    IF 53 \notin DOMAIN opts THEN "packet does not have a DHCP Message Type option"
    ELSE IF Len(opts[53]) # 1 THEN "DHCP Message Type is not a single byte"
    ELSE IF opts[53] \notin {<<1>>, <<3>>} THEN "DHCP message type not supported"
    ELSE "building response"

\* the diagnostic of the first failing check when the length, opcode, hardware
\* type and hardware address length checks are followed by the two checks
\* second and third in the order given
FirstFailing(p, second, third) ==
    LET fails(c) == IF c = "cookie" THEN BadCookieIn(p) ELSE MacMismatchIn(p)
        says(c) == IF c = "cookie" THEN "options field does not begin with Magic Cookie"
                   ELSE "MAC address does not match"
    IN  IF Len(p) = 0 THEN "no bytes in packet"
        ELSE IF Len(p) < 241 THEN "less than 241 bytes in packet"
        ELSE IF p[1] \notin {1, 2} THEN "Op field not 1 (request) or 2 (reply)"
        ELSE IF p[2] # 1 THEN "only hardware type 1 supported"
        ELSE IF p[3] # 6 THEN "only hardware address lengths of 6 supported"
        ELSE IF fails(second) THEN says(second)
        ELSE IF fails(third) THEN says(third)
        ELSE OptionReason

\* C12 as stated: the checks run in the order length (0, then < 241), opcode,
\* hardware type, hardware address length, magic cookie, MAC filter, option 53
\* presence and size, message type value, and a datagram is rejected with the
\* diagnostic of the first failing check in that order; a datagram with a wrong
\* cookie and a non-matching MAC is rejected for the cookie.
C12_CookieBeforeMac ==
    Handled => reason = FirstFailing(packet, "cookie", "mac")

\* C12: the checks run in the order length (0, then < 241), opcode, hardware
\* type, hardware address length, MAC filter, magic cookie, option 53 presence
\* and size, message type value, and a datagram is rejected with the diagnostic
\* of the first failing check in that order; a datagram with a wrong cookie and
\* a non-matching MAC is rejected for the MAC mismatch.
C12_CheckOrder ==
    Handled => reason = FirstFailing(packet, "mac", "cookie")

\* a datagram with a wrong cookie and a non-matching MAC has been rejected
C12_Witness ==
    /\ Handled
    /\ NoReply
    /\ Len(packet) >= 241
    /\ packet[1] \in {1, 2} /\ packet[2] = 1 /\ packet[3] = 6
    /\ BadCookieIn(packet)
    /\ MacMismatchIn(packet)
    /\ reason = "MAC address does not match"

\* the payloads of the option 53 entries, in the order of the entries
MessageTypes(entries) ==
    SelectSeq(entries, LAMBDA e : e[1] = 53)

\* C13: when option 53 occurs more than once among the entries decoded before
\* END or truncation, the last occurrence decides: a last payload [1] gives an
\* OFFER, a last payload [3] gives an ACK (so 53=[1] then 53=[3] is
\* acknowledged and 53=[3] then 53=[1] is offered), and a last payload whose
\* length is not 1 gives no reply even after a valid one-byte option 53.
C13_LastOccurrenceWins ==
    (/\ Handled
     /\ ValidHeader(packet)
     /\ FromConfiguredMac(packet)
     /\ Tlv(OptionArea(packet)).end \in {"END", "TRUNC"}
     /\ Len(MessageTypes(Tlv(OptionArea(packet)).entries)) >= 2)
    => LET types == MessageTypes(Tlv(OptionArea(packet)).entries)
           last == types[Len(types)][2]
       IN  /\ last = <<1>> => (Answered /\ SubSeq(TheReply, 241, 243) = <<53, 1, 2>>)
           /\ last = <<3>> => (Answered /\ SubSeq(TheReply, 241, 243) = <<53, 1, 5>>)
           /\ Len(last) # 1 => NoReply

\* 53=[1] followed by 53=[3] has been acknowledged
C13_Witness ==
    /\ Handled
    /\ ValidHeader(packet)
    /\ FromConfiguredMac(packet)
    /\ LET types == MessageTypes(Tlv(OptionArea(packet)).entries)
       IN  /\ Len(types) = 2
           /\ types[1][2] = <<1>>
           /\ types[2][2] = <<3>>
    /\ Answered
    /\ SubSeq(TheReply, 241, 243) = <<53, 1, 5>>

\* the offsets of an option area at which an option code is expected: the start,
\* the offset after each PAD and after each complete option, up to the first
\* END or the option that does not fit
RECURSIVE CodePositionsFrom(_, _)
CodePositionsFrom(data, idx) ==
    IF idx >= Len(data) THEN {idx}
    ELSE IF data[idx + 1] = 0 THEN {idx} \cup CodePositionsFrom(data, idx + 1)
    ELSE IF data[idx + 1] = 255 THEN {idx}
    ELSE IF idx + 1 >= Len(data) THEN {idx}
    ELSE IF idx + 2 + data[idx + 2] > Len(data) THEN {idx}
    ELSE {idx} \cup CodePositionsFrom(data, idx + 2 + data[idx + 2])

CodePositions(data) == CodePositionsFrom(data, 0)

\* n PAD bytes put in at offset k
WithPads(data, k, n) ==
    SubSeq(data, 1, k) \o [j \in 1..n |-> 0] \o SubSeq(data, k + 1, Len(data))

\* the offset of the first END at an option code position, or -1
FirstEnd(data) ==
    IF \E k \in CodePositions(data) : k < Len(data) /\ data[k + 1] = 255
    THEN CHOOSE k \in CodePositions(data) : k < Len(data) /\ data[k + 1] = 255
    ELSE 0 - 1

\* what may follow an END byte
Tails == { << >>, <<0>>, <<255>>, <<53, 1, 1, 255>>, <<53, 1, 3, 0>>, <<53, 2, 1, 3, 255>> }

\* C14: a byte 0 at an option code position adds no entry, so one or two PAD
\* bytes put in before, between or after the complete options of an option
\* area leave the decoded mapping as it is; a byte 255 at an option code
\* position ends the scan there, so the mapping is that of the bytes before
\* the first END whatever follows it; bytes 0 and 255 in a length or a payload
\* are data, so an END terminated area decodes to the mapping of its entries.
C14_PadAndEnd ==
    cpc = "done" =>
        /\ \A k \in CodePositions(optiondata) : \A n \in 1..2 :
               ScanFrom(WithPads(optiondata, k, n), 0, EmptyDict).opts = opts
        /\ FirstEnd(optiondata) >= 0 =>
               /\ i = FirstEnd(optiondata)
               /\ \A t \in Tails :
                      ScanFrom(SubSeq(optiondata, 1, FirstEnd(optiondata) + 1) \o t,
                               0, EmptyDict).opts = opts
               /\ opts = TlvMap(Tlv(optiondata).entries)

\* the datagram is past recvfrom and not yet dropped or answered
Processing == pc \in {"scan", "classify", "built", "sockopen", "sent"}

\* C15: the processing of every received datagram ends: each iteration of the
\* option scan ends the scan or leaves the index larger than it was, the
\* handler sends no reply or one, the server comes back to waiting for the next
\* datagram, and no step taken for a datagram ends the process.
C15_Termination ==
    /\ [][(pc = "scan" /\ pc' = "scan") => i' > i]_vars
    /\ [][Processing => pc' # "exited"]_vars
    /\ [][pc = "waiting" => pc' # "exited"]_vars
    /\ [](Len(wire) <= 1)
    /\ (Processing ~> pc = "waiting")

\* the scan is past a PAD byte and an option of a datagram that is answered later
C15_Witness ==
    /\ pc = "scan"
    /\ i = 5
    /\ optiondata = <<0, 0, 53, 1, 1, 0, 255>>
    /\ received = 2

Broadcast(data) == [data |-> data, host |-> <<255, 255, 255, 255>>, port |-> 68]

\* C16: the transmitting socket is opened only once the reply is completely
\* built, is used for exactly one send of that reply to 255.255.255.255 port
\* 68, and is closed before the server waits for the next datagram: it is open
\* only between its opening and its closing, never while the server waits, and
\* a datagram that is rejected never opens it.
C16_SendSockLifecycle ==
    /\ [](sendsock = "open" <=> pc \in {"sockopen", "sent"})
    /\ [](pc = "sockopen" => (wire = << >> /\ Len(offer) > 240 /\ offer[Len(offer)] = 255))
    /\ [](pc = "sent" => wire = <<Broadcast(offer)>>)
    /\ [](pc = "waiting" => (sendsock # "open" /\ wire \in {<< >>, <<Broadcast(offer)>>}))
    /\ [][(sendsock # "open" /\ sendsock' = "open") => (pc = "built" /\ offer' = offer)]_vars
    /\ [][(pc = "waiting" /\ pc' = "waiting") => sendsock' = sendsock]_vars

\* a reply has been sent and the socket closed, and the next datagram has been
\* rejected
C16_Witness ==
    /\ pc = "waiting"
    /\ sendsock = "closed"
    /\ received = 2
    /\ NoReply

\* the loop variables as they are before the first datagram
Fresh == [opts |-> EmptyDict, offer |-> << >>, responsename |-> ""]

\* a REQUEST from the configured MAC
WellFormedRequest(p) ==
    /\ ValidHeader(p)
    /\ FromConfiguredMac(p)
    /\ Tlv(OptionArea(p)).end = "END"
    /\ PayloadsOf(Tlv(OptionArea(p)).entries, 53) = {<<3>>}

\* C17: whatever datagrams came before, the outcome for a datagram (reply or
\* not, the reply's bytes, the diagnostic) is the outcome the same datagram has
\* as the first one after startup under the same configuration; a REQUEST from
\* the configured MAC is acknowledged whether or not a DISCOVER came before it.
C17_NoCarryOver ==
    Handled =>
        /\ \E alone \in {MainLoop(packet, Conf, Fresh)} :
               /\ Answered <=> alone.built
               /\ Answered => TheReply = alone.offer
               /\ reason = alone.reason
        /\ WellFormedRequest(packet) =>
               (Answered /\ SubSeq(TheReply, 241, 243) = <<53, 1, 5>>)

\* a datagram without option 53 has been dropped after an answered one, whose
\* response is still in the loop's variables
C17_Witness ==
    /\ received = 2
    /\ NoReply
    /\ ValidHeader(packet)
    /\ FromConfiguredMac(packet)
    /\ PayloadsOf(Tlv(OptionArea(packet)).entries, 53) = {}
    /\ opts = EmptyDict
    /\ offer # << >>

\* the value the command line gives an option: the argument after the last
\* occurrence of the flag, or the empty text
ArgText(flag) ==
    LET at == { k \in 1..(Len(argv) - 1) : k % 2 = 1 /\ argv[k] = flag }
    IN  IF at = {} THEN << >>
        ELSE argv[(CHOOSE k \in at : \A j \in at : j <= k) + 1]

\* exactly four non-empty all-digit octets 0..255 separated by '.'
WellFormedDotted(text) ==
    LET octets == SplitDot(text, << >>, << >>)
    IN  /\ Len(octets) = 4
        /\ \A k \in 1..4 :
               /\ octets[k] # << >>
               /\ \A j \in 1..Len(octets[k]) : IsDigitChar(octets[k][j])
               /\ IntOf(octets[k]) <= 255

InLoop == pc \notin {"start", "exited", "codec"}

\* C18: the server is in the receive loop only with a bind address, an offered
\* address, a subnet mask and a gateway that each are four non-empty all-digit
\* octets 0..255 separated by '.' (any other text, an omitted option included,
\* stops the program before the loop) and with a target MAC that is a 6-byte
\* address in the colon separated two-hex-digit form; in the loop the
\* configuration stays what the command line gave.
C18_ConfigurationInvariant ==
    InLoop =>
        /\ \A flag \in {FlagB, FlagI, FlagS, FlagG} : WellFormedDotted(ArgText(flag))
        /\ baipbind = DottedBytes(ArgText(FlagB))
        /\ baipaddr = DottedBytes(ArgText(FlagI))
        /\ basubnet = DottedBytes(ArgText(FlagS))
        /\ bagateway = DottedBytes(ArgText(FlagG))
        /\ macaddr = UpperText(ArgText(FlagM))
        /\ CanonicalMac(macaddr)

\* q has the transaction-id, the flags and the hardware address of p
SameEchoedFields(p, q) ==
    /\ SubSeq(q, 5, 8) = SubSeq(p, 5, 8)
    /\ SubSeq(q, 11, 12) = SubSeq(p, 11, 12)
    /\ SubSeq(q, 29, 34) = SubSeq(p, 29, 34)

\* the datagrams with a valid header, the hardware address of the answered
\* datagram and its last decoded option 53
Alike ==
    { q \in Datagrams :
        /\ ValidHeader(q)
        /\ SubSeq(q, 29, 34) = SubSeq(packet, 29, 34)
        /\ 53 \in DOMAIN ProcessOptions(q)
        /\ ProcessOptions(q)[53] = opts[53] }

\* C19: under one configuration every datagram with a valid header that has the
\* hardware address and the last decoded option 53 of an answered datagram is
\* answered too, and with the same bytes when it also has its transaction-id
\* and flags: the opcode (1 or 2), hops, seconds, ciaddr, yiaddr, siaddr,
\* giaddr, sname, file and the other options change neither whether a reply is
\* sent nor its bytes.
C19_NonInterference ==
    (Handled /\ Answered) =>
        \A q \in Alike :
            \E r \in {MainLoop(q, Conf, Fresh)} :
                /\ r.built
                /\ SameEchoedFields(packet, q) => r.offer = TheReply

\* an answered datagram that has a twin with the other opcode, a twin with
\* other hops, seconds and addresses, and a twin with options 50 and 54
C19_Witness ==
    /\ Handled
    /\ Answered
    /\ \E q \in Alike : SameEchoedFields(packet, q) /\ q[1] # packet[1]
    /\ \E q \in Alike : SameEchoedFields(packet, q) /\ q[4] # packet[4]
    /\ \E q \in Alike :
           /\ SameEchoedFields(packet, q)
           /\ PayloadsOf(Tlv(OptionArea(q)).entries, 54) # {}
           /\ PayloadsOf(Tlv(OptionArea(packet)).entries, 54) = {}

\* the configurations of the command lines that reach the main loop
LoopConfs ==
    { [macaddr |-> c.macaddr, baipbind |-> c.baipbind, baipaddr |-> c.baipaddr,
       basubnet |-> c.basubnet, bagateway |-> c.bagateway] :
        c \in { d \in { Configure(a) : a \in Argvs } : d.exit = "" } }

\* C20: a reply given back to the handler as a received datagram gets no reply,
\* under the configuration that produced it and under any other: its option
\* area is END terminated and its only option 53 carries 2 or 5, so when it
\* passes the header and MAC checks it is dropped at the message type check.
C20_NoSelfAnswer ==
    Answered =>
        /\ Tlv(OptionArea(TheReply)).end = "END"
        /\ PayloadsOf(Tlv(OptionArea(TheReply)).entries, 53) \in {{<<2>>}, {<<5>>}}
        /\ \A cf \in LoopConfs : ~MainLoop(TheReply, cf, Fresh).built
        /\ MainLoop(TheReply, Conf, Fresh).reason = "DHCP message type not supported"

\* a reply has been broadcast that has a valid header and the hardware
\* address the server answers
C20_Witness ==
    /\ pc = "waiting"
    /\ wire # << >>
    /\ ValidHeader(wire[1].data)
    /\ FromConfiguredMac(wire[1].data)

=============================================================================
